---- MODULE Spec2Model ----
(***************************************************************************)
(* State-machine model of the session/token lifecycle (auth controller,    *)
(* Google strategy, authenticateToken middleware) and of the search rate   *)
(* limiter of the book-sharing backend.                                    *)
(*                                                                         *)
(* Every request handler is an async function.  A handler runs without     *)
(* interruption between two awaits (Node runs one callback at a time), so  *)
(* each action below is one such segment: the database operation the       *)
(* handler was awaiting takes effect, and the synchronous code up to the   *)
(* next await (or the response) runs.  The code before a handler's first   *)
(* await reads only the request and the clock, so it forms one action with *)
(* the first database read.  bcrypt calls touch no shared state and end no *)
(* segment.  Segments of different requests interleave freely.             *)
(***************************************************************************)
EXTENDS Integers, Sequences, FiniteSets, TLC

\* ------------------------------------------------------------ bounds
NumProcs == 2          \* requests handled concurrently
MaxUserId == 2         \* principals ever created (ObjectIds handed out)
NumProfiles == 2       \* distinct (handle, e-mail, googleId) identities used
MaxTicks == 4          \* clock ticks of TickMs the auth clock may advance
TickMs == 500          \* milliseconds per auth clock tick
AccessExpirySec == 1   \* ACCESS_TOKEN_EXPIRY as configured, in seconds
RefreshExpirySec == 2  \* REFRESH_TOKEN_EXPIRY as configured, in seconds
RateTickMs == 30000    \* milliseconds per clock tick while rate limiting is examined
MaxRateTicks == 4      \* such ticks the clock may advance
MaxDenied == 2         \* calls followed past the ceiling within one window
NumPosts == 2          \* posts that may be among the candidates of a search
MaxItems == 2          \* items in an upstream response array
MaxRepeatItems == 3    \* items in a response array where ids may repeat
MaxFewTaken == 3       \* handles of one base in a sparsely filled store

Procs == 1..NumProcs
UserIds == 1..MaxUserId
Profiles == 1..NumProfiles

\* ------------------------------------------------------------ tokens
\* A JWT is determined by its secret (access or refresh), its payload
\* { userId, iat, exp } and nothing else: HS256 signing is deterministic.
NoTok == [typ |-> "none", userId |-> 0, iat |-> 0]
Garbage == [typ |-> "garbage", userId |-> 0, iat |-> 0]

\* jwt.sign({ userId }, secret, { expiresIn }): iat is the clock in whole seconds.
JwtSign(typ, userId, nowMs) == [typ |-> typ, userId |-> userId, iat |-> nowMs \div 1000]

ExpirySec(typ) == IF typ = "access" THEN AccessExpirySec ELSE RefreshExpirySec

\* A verification that checks the signature and the type but not the expiry.
JwtVerifyNoExpiry(tok, typ, nowMs) ==
  IF tok.typ # typ THEN "invalid" ELSE "ok"

\* jwt.verify(token, secret): signature first, then expiry (now >= exp).
JwtVerify(tok, typ, nowMs) ==
  IF tok.typ # typ THEN "invalid"
  ELSE IF nowMs \div 1000 >= tok.iat + ExpirySec(typ) THEN "expired"
  ELSE "ok"

generateTokens(userId, nowMs) ==
  [accessToken |-> JwtSign("access", userId, nowMs),
   refreshToken |-> JwtSign("refresh", userId, nowMs)]

NoPair == [accessToken |-> NoTok, refreshToken |-> NoTok]

\* ------------------------------------------------------------ store
\* The users collection: one document per id, or none.
NoName == [base |-> 0, n |-> 0]
NoUser == [exists |-> FALSE, username |-> NoName, email |-> 0, password |-> "",
           googleId |-> 0, refreshToken |-> NoTok]

\* The in-memory document a handler holds: the fields as loaded or last assigned.
NoDoc == [id |-> 0, googleId |-> 0, refreshToken |-> NoTok]

DocOf(store, id) ==
  [id |-> id, googleId |-> store[id].googleId, refreshToken |-> store[id].refreshToken]

ExistingIds(store) == {i \in UserIds : store[i].exists}

\* User.findById(id)
findById(store, id) ==
  IF id \in UserIds /\ store[id].exists THEN DocOf(store, id) ELSE NoDoc

\* User.findOne({ email })
findByEmail(store, email) ==
  LET hits == {i \in ExistingIds(store) : store[i].email = email}
  IN IF hits = {} THEN NoDoc ELSE DocOf(store, CHOOSE i \in hits : TRUE)

\* User.findOne({ $or: [{ email }, { username }] })
findByEmailOrUsername(store, email, username) ==
  LET hits == {i \in ExistingIds(store) :
                 store[i].email = email \/ store[i].username = username}
  IN IF hits = {} THEN NoDoc ELSE DocOf(store, CHOOSE i \in hits : TRUE)

\* An index on the contact address alone.
UniqueViolationEmailOnly(store, username, email) ==
  \E i \in ExistingIds(store) : store[i].email = email

\* The unique indexes on username and email (E11000 on insert).
UniqueViolation(store, username, email) ==
  \E i \in ExistingIds(store) : store[i].username = username \/ store[i].email = email

\* doc.save() of a loaded document after `doc.refreshToken = value`: Mongoose
\* writes only modified paths, addressed by _id; a document that is gone makes
\* save() throw; an unchanged value writes nothing.
SaveTokenFails(store, doc) == ~store[doc.id].exists

SaveToken(store, doc, value) ==
  IF ~store[doc.id].exists \/ value = doc.refreshToken THEN store
  ELSE [store EXCEPT ![doc.id].refreshToken = value]

\* ------------------------------------------------------------ state
VARIABLES
  now,        \* Date.now(), milliseconds
  users,      \* the users collection
  nextId,     \* next ObjectId to hand out
  req,        \* per handler: the request in progress and its response
  issued,     \* refresh tokens delivered to clients in responses
  rateLimits, \* the rate limiter's Map: userId -> { count, resetAt }
  lastCall,   \* the latest checkRateLimit call and what it returned
  opened,     \* per principal, when the first call of its current window came
  calls,      \* per principal, the calls made since then, that one included
  admitLog,   \* per principal and clock tick, the calls admitted at that instant
  uniq        \* a call of ensureUniqueUsername taken by itself: its input and its locals

authVars == <<users, nextId, req, issued>>
rateVars == <<rateLimits, lastCall, opened, calls, admitLog>>
vars == <<now, users, nextId, req, issued, rateLimits, lastCall, opened, calls, admitLog,
          uniq>>

\* rateLimits.get(userId) is undefined
NoWindow == [count |-> 0, resetAt |-> 0]

\* No call of ensureUniqueUsername is being followed by itself.
NoCall == [pc |-> "none", len |-> 0, taken |-> 0, n |-> 0]

\* An absent or empty upstream response text, and no upstream outcome.
NoText == [fence |-> "", parses |-> FALSE, kind |-> "", items |-> <<>>]
NoOutcome == [ok |-> FALSE, text |-> NoText, status |-> 0, apiKey |-> FALSE]

Idle == [op |-> "idle", pc |-> "idle", tok |-> NoTok, email |-> 0,
         username |-> NoName, password |-> "", googleId |-> 0,
         doc |-> NoDoc, pair |-> NoPair, status |-> 0, error |-> "",
         principal |-> 0, afterUse |-> FALSE, afterRevoke |-> FALSE,
         posts |-> <<>>, invoked |-> FALSE, upstream |-> NoOutcome,
         result |-> <<>>]

Init ==
  /\ now = 0
  /\ users = [i \in UserIds |-> NoUser]
  /\ nextId = 1
  /\ req = [p \in Procs |-> Idle]
  /\ issued = {}
  /\ rateLimits = [u \in UserIds |-> NoWindow]
  /\ lastCall = [user |-> 0, ok |-> FALSE]
  /\ opened = [u \in UserIds |-> -1]
  /\ calls = [u \in UserIds |-> 0]
  /\ admitLog = [u \in UserIds |-> [i \in 0..MaxRateTicks |-> 0]]
  /\ uniq = NoCall

\* res.status(s).json({ error: e }): what is kept of a rejected request is the
\* token it presented and the response; the handler's locals are gone.
Reject(r, s, e) ==
  [Idle EXCEPT !.op = r.op, !.pc = "done", !.status = s, !.error = e, !.tok = r.tok]

\* res.status(s).json({ ..., accessToken, refreshToken }): what is kept of an
\* accepted request is the token it presented and the pair it was given.
Respond(r, s) ==
  [Idle EXCEPT !.op = r.op, !.pc = "done", !.status = s, !.tok = r.tok,
               !.pair = r.pair, !.afterUse = r.afterUse, !.afterRevoke = r.afterRevoke]

AccessOf(rt) == [rt EXCEPT !.typ = "access"]

\* Tokens a client can put in a request: a refresh or access token some response
\* delivered, or junk.  Nobody else holds the signing secrets.
Presentable == issued \cup {AccessOf(t) : t \in issued} \cup {Garbage}

InFlight(p) == req[p].pc \notin {"idle", "done"}

\* A new request is taken by the first handler that is free.
FreeSlot(p) == req[p].pc = "idle" /\ \A q \in Procs : q < p => req[q].pc # "idle"

\* Requests on their way to inserting a new principal; a further one is taken
\* only while an id is left for it (caps the ids handed out).
Creating == {p \in Procs : req[p].pc \in {"insert", "uniq"}}

CanCreate == nextId + Cardinality(Creating) <= MaxUserId

MayStart(r) == r.pc \in {"insert", "uniq"} => CanCreate

\* A response that carries a token pair delivers its refresh token to the client.
Delivered(r) == IF r.pair = NoPair THEN {} ELSE {r.pair.refreshToken}

\* ------------------------------------------------------------ register
\* POST /auth/register: validation, then findOne({ $or: [{ email }, { username }] })
\* resolves; bcrypt.hash is awaited.
RegisterStart(p, username, email, password) ==
  /\ FreeSlot(p)
  /\ LET r == [Idle EXCEPT !.op = "register", !.username = username,
                           !.email = email, !.password = password]
         next ==
          IF username = NoName \/ email = 0 \/ password = ""
            THEN Reject(r, 400, "Username, email, and password are required")
          ELSE IF Len(password) < 6
            THEN Reject(r, 400, "Password must be at least 6 characters")
          ELSE IF findByEmailOrUsername(users, email, username) # NoDoc
            THEN Reject(r, 400, "User with this email or username already exists")
          ELSE [r EXCEPT !.pc = "insert"]
     IN /\ MayStart(next)
        /\ req' = [req EXCEPT ![p] = next]
  /\ UNCHANGED <<now, users, nextId, issued>>
  /\ UNCHANGED <<rateVars, uniq>>

\* The first user.save() inserts the document (or hits a unique index); then
\* generateTokens and `user.refreshToken = refreshToken`.
RegisterInsert(p) ==
  /\ req[p].op = "register" /\ req[p].pc = "insert"
  /\ IF UniqueViolation(users, req[p].username, req[p].email)
       THEN /\ req' = [req EXCEPT ![p] =
                 Reject(req[p], 400, "Username or email already exists")]
            /\ UNCHANGED <<users, nextId>>
       ELSE /\ users' = [users EXCEPT ![nextId] =
                 [exists |-> TRUE, username |-> req[p].username,
                  email |-> req[p].email, password |-> req[p].password,
                  googleId |-> 0, refreshToken |-> NoTok]]
            /\ nextId' = nextId + 1
            /\ req' = [req EXCEPT ![p] =
                 [Idle EXCEPT !.op = "register", !.pc = "save",
                              !.doc = [id |-> nextId, googleId |-> 0, refreshToken |-> NoTok],
                              !.pair = generateTokens(nextId, now)]]
  /\ UNCHANGED <<now, issued>>
  /\ UNCHANGED <<rateVars, uniq>>

\* The second user.save() stores the refresh token; 201 with the pair.
RegisterSave(p) ==
  /\ req[p].op = "register" /\ req[p].pc = "save"
  /\ IF SaveTokenFails(users, req[p].doc)
       THEN /\ req' = [req EXCEPT ![p] = Reject(req[p], 500, "Failed to register user")]
            /\ UNCHANGED <<users, issued>>
       ELSE /\ users' = SaveToken(users, req[p].doc, req[p].pair.refreshToken)
            /\ req' = [req EXCEPT ![p] = Respond(req[p], 201)]
            /\ issued' = issued \cup Delivered(req[p])
  /\ UNCHANGED <<now, nextId>>
  /\ UNCHANGED <<rateVars, uniq>>

\* ------------------------------------------------------------ login
\* POST /auth/login: validation, findOne({ email }) resolves, bcrypt.compare
\* against the loaded hash, generateTokens, `user.refreshToken = refreshToken`.
LoginStart(p, email, password) ==
  /\ FreeSlot(p)
  /\ LET r == [Idle EXCEPT !.op = "login"]
         user == findByEmail(users, email)
     IN req' = [req EXCEPT ![p] =
          IF email = 0 \/ password = ""
            THEN Reject(r, 400, "Email and password are required")
          ELSE IF user = NoDoc
            THEN Reject(r, 401, "Invalid email or password")
          ELSE IF users[user.id].password # password
            THEN Reject(r, 401, "Invalid email or password")
          ELSE [r EXCEPT !.pc = "save", !.doc = user,
                         !.pair = generateTokens(user.id, now)]]
  /\ UNCHANGED <<now, users, nextId, issued>>
  /\ UNCHANGED <<rateVars, uniq>>

\* user.save() stores the refresh token; 200 with the pair.
LoginSave(p) ==
  /\ req[p].op = "login" /\ req[p].pc = "save"
  /\ IF SaveTokenFails(users, req[p].doc)
       THEN /\ req' = [req EXCEPT ![p] = Reject(req[p], 500, "Failed to login")]
            /\ UNCHANGED <<users, issued>>
       ELSE /\ users' = SaveToken(users, req[p].doc, req[p].pair.refreshToken)
            /\ req' = [req EXCEPT ![p] = Respond(req[p], 200)]
            /\ issued' = issued \cup Delivered(req[p])
  /\ UNCHANGED <<now, nextId>>
  /\ UNCHANGED <<rateVars, uniq>>

\* ------------------------------------------------------------ logout
\* A logout that compares the presented token with the stored one, as
\* refresh does.
LogoutStartComparing(p, tok) ==
  /\ FreeSlot(p)
  /\ LET r == [Idle EXCEPT !.op = "logout", !.tok = tok]
         user == findById(users, tok.userId)
     IN req' = [req EXCEPT ![p] =
          IF tok = NoTok
            THEN Reject(r, 400, "Refresh token is required")
          ELSE IF JwtVerify(tok, "refresh", now) # "ok"
            THEN Reject(r, 401, "Invalid refresh token")
          ELSE IF user = NoDoc \/ user.refreshToken # tok
            THEN Reject(r, 401, "User not found")
          ELSE [r EXCEPT !.pc = "save", !.doc = user]]
  /\ UNCHANGED <<now, users, nextId, issued>>
  /\ UNCHANGED <<rateVars, uniq>>

\* POST /auth/logout: jwt.verify, findById resolves, `user.refreshToken = undefined`.
LogoutStart(p, tok) ==
  /\ FreeSlot(p)
  /\ LET r == [Idle EXCEPT !.op = "logout", !.tok = tok]
         user == findById(users, tok.userId)
     IN req' = [req EXCEPT ![p] =
          IF tok = NoTok
            THEN Reject(r, 400, "Refresh token is required")
          ELSE IF JwtVerify(tok, "refresh", now) # "ok"
            THEN Reject(r, 401, "Invalid refresh token")
          ELSE IF user = NoDoc
            THEN Reject(r, 401, "User not found")
          ELSE [r EXCEPT !.pc = "save", !.doc = user]]
  /\ UNCHANGED <<now, users, nextId, issued>>
  /\ UNCHANGED <<rateVars, uniq>>

\* user.save() clears the stored token; 200.
LogoutSave(p) ==
  /\ req[p].op = "logout" /\ req[p].pc = "save"
  /\ IF SaveTokenFails(users, req[p].doc)
       THEN /\ req' = [req EXCEPT ![p] = Reject(req[p], 500, "Failed to logout")]
            /\ UNCHANGED users
       ELSE /\ users' = SaveToken(users, req[p].doc, NoTok)
            /\ req' = [req EXCEPT ![p] = Respond(req[p], 200)]
  /\ UNCHANGED <<now, nextId, issued>>
  /\ UNCHANGED <<rateVars, uniq>>

\* ------------------------------------------------------------ refresh
\* Some request of kind `op` presenting `tok` has been answered 200 and its
\* client holds the response: a request arriving now comes after it.
Answered200(op, tok) ==
  \E q \in Procs : /\ req[q].pc = "done" /\ req[q].op = op
                   /\ req[q].status = 200 /\ req[q].tok = tok

\* A comparison that only asks whether the principal exists.
RefreshMismatchLax(user, tok) == user = NoDoc

\* `!user || user.refreshToken !== refreshToken`
RefreshMismatch(user, tok) == user = NoDoc \/ user.refreshToken # tok

\* Whether POST /auth/refresh presenting `tok` would get past the verification
\* and the comparison at time nowMs against the store.
RefreshAccepts(tok, nowMs, store) ==
  /\ tok # NoTok
  /\ JwtVerify(tok, "refresh", nowMs) = "ok"
  /\ ~RefreshMismatch(findById(store, tok.userId), tok)

\* POST /auth/refresh: jwt.verify, findById resolves, the comparison,
\* generateTokens, `user.refreshToken = newRefreshToken`.
RefreshStart(p, tok) ==
  /\ FreeSlot(p)
  /\ LET r == [Idle EXCEPT !.op = "refresh", !.tok = tok,
                           !.afterUse = Answered200("refresh", tok),
                           !.afterRevoke = Answered200("logout", tok)]
         user == findById(users, tok.userId)
     IN req' = [req EXCEPT ![p] =
          IF tok = NoTok
            THEN Reject(r, 400, "Refresh token is required")
          ELSE IF JwtVerify(tok, "refresh", now) # "ok"
            THEN Reject(r, 401, "Invalid or expired refresh token")
          ELSE IF RefreshMismatch(user, tok)
            THEN Reject(r, 401, "Invalid refresh token")
          ELSE [r EXCEPT !.pc = "save", !.doc = user,
                         !.pair = generateTokens(user.id, now)]]
  /\ UNCHANGED <<now, users, nextId, issued>>
  /\ UNCHANGED <<rateVars, uniq>>

\* user.save() stores the new refresh token; 200 with the pair.
RefreshSave(p) ==
  /\ req[p].op = "refresh" /\ req[p].pc = "save"
  /\ IF SaveTokenFails(users, req[p].doc)
       THEN /\ req' = [req EXCEPT ![p] = Reject(req[p], 500, "Failed to refresh token")]
            /\ UNCHANGED <<users, issued>>
       ELSE /\ users' = SaveToken(users, req[p].doc, req[p].pair.refreshToken)
            /\ req' = [req EXCEPT ![p] = Respond(req[p], 200)]
            /\ issued' = issued \cup Delivered(req[p])
  /\ UNCHANGED <<now, nextId>>
  /\ UNCHANGED <<rateVars, uniq>>

\* ------------------------------------------------------------ Google sign-in
\* User.findOne({ $or: [{ googleId }, { email }] }): the first match in id order.
findByGoogleOrEmail(store, googleId, email) ==
  LET hits == {i \in ExistingIds(store) :
                 store[i].googleId = googleId \/ store[i].email = email}
  IN IF hits = {} THEN NoDoc
     ELSE DocOf(store, CHOOSE i \in hits : \A j \in hits : i <= j)

\* User.findOne({ username })
UsernameTaken(store, username) ==
  \E i \in ExistingIds(store) : store[i].username = username

\* `${base}${++n}`.slice(0, 30): the base with the next numeric suffix.
NextCandidate(username) == [username EXCEPT !.n = username.n + 1]

\* The verify callback of the Google strategy, up to the first save or the
\* first uniqueness lookup.  `base` is the handle derived from the display name.
GoogleStart(p, googleId, email, base) ==
  /\ FreeSlot(p)
  /\ LET r == [Idle EXCEPT !.op = "google", !.googleId = googleId, !.email = email]
         user == findByGoogleOrEmail(users, googleId, email)
         next ==
          IF email = 0
            THEN Reject(r, 302, "Google account has no email address")
          ELSE IF user # NoDoc /\ user.googleId = 0
            THEN [r EXCEPT !.pc = "saveLink", !.doc = [user EXCEPT !.googleId = googleId]]
          ELSE IF user # NoDoc
            THEN [r EXCEPT !.pc = "saveToken", !.doc = user,
                           !.pair = generateTokens(user.id, now)]
          ELSE [r EXCEPT !.pc = "uniq", !.username = [base |-> base, n |-> 0]]
     IN /\ MayStart(next)
        /\ req' = [req EXCEPT ![p] = next]
  /\ UNCHANGED <<now, users, nextId, issued>>
  /\ UNCHANGED <<rateVars, uniq>>

\* One turn of ensureUniqueUsername's loop: findOne({ username }) resolves.
GoogleUniq(p) ==
  /\ req[p].op = "google" /\ req[p].pc = "uniq"
  /\ req' = [req EXCEPT ![p] =
       IF UsernameTaken(users, req[p].username)
         THEN [req[p] EXCEPT !.username = NextCandidate(req[p].username)]
       ELSE [req[p] EXCEPT !.pc = "insert"]]
  /\ UNCHANGED <<now, users, nextId, issued>>
  /\ UNCHANGED <<rateVars, uniq>>

\* The handle derived from a display name of two characters; the handles of
\* the other profiles have five.
ShortBase == NumProfiles + 1

\* Characters of a handle: those of its base and of its numeric suffix.
NameLength(username) ==
  (IF username.base = ShortBase THEN 2 ELSE 5) + (IF username.n = 0 THEN 0 ELSE 1)

\* userSchema.username: minlength 3, maxlength 30, validated by save().
MinUsernameLength == 3
MaxUsernameLength == 30

ValidUsername(username) ==
  /\ NameLength(username) >= MinUsernameLength
  /\ NameLength(username) <= MaxUsernameLength

\* user.save() of the new principal (random password, googleId set): the
\* document is validated, then inserted (or hits a unique index); then
\* generateTokens and `user.refreshToken = refreshToken`.
GoogleInsert(p) ==
  /\ req[p].op = "google" /\ req[p].pc = "insert"
  /\ IF ~ValidUsername(req[p].username)
       THEN /\ req' = [req EXCEPT ![p] =
                 Reject(req[p], 302, "Username must be at least 3 characters")]
            /\ UNCHANGED <<users, nextId>>
       ELSE IF UniqueViolation(users, req[p].username, req[p].email)
       THEN /\ req' = [req EXCEPT ![p] = Reject(req[p], 302, "E11000 duplicate key error")]
            /\ UNCHANGED <<users, nextId>>
       ELSE /\ users' = [users EXCEPT ![nextId] =
                 [exists |-> TRUE, username |-> req[p].username,
                  email |-> req[p].email, password |-> "random",
                  googleId |-> req[p].googleId, refreshToken |-> NoTok]]
            /\ nextId' = nextId + 1
            /\ req' = [req EXCEPT ![p] =
                 [Idle EXCEPT !.op = "google", !.pc = "saveToken",
                              !.doc = [id |-> nextId, googleId |-> req[p].googleId,
                                       refreshToken |-> NoTok],
                              !.pair = generateTokens(nextId, now)]]
  /\ UNCHANGED <<now, issued>>
  /\ UNCHANGED <<rateVars, uniq>>

\* user.save() after `user.googleId = googleId` on a principal found without
\* a linkage, then generateTokens and `user.refreshToken = refreshToken`.
GoogleSaveLink(p) ==
  /\ req[p].op = "google" /\ req[p].pc = "saveLink"
  /\ IF ~users[req[p].doc.id].exists
       THEN /\ req' = [req EXCEPT ![p] = Reject(req[p], 302, "No document found")]
            /\ UNCHANGED users
       ELSE /\ users' = [users EXCEPT ![req[p].doc.id].googleId = req[p].doc.googleId]
            /\ req' = [req EXCEPT ![p] =
                 [Idle EXCEPT !.op = "google", !.pc = "saveToken", !.doc = req[p].doc,
                              !.pair = generateTokens(req[p].doc.id, now)]]
  /\ UNCHANGED <<now, nextId, issued>>
  /\ UNCHANGED <<rateVars, uniq>>

\* user.save({ validateBeforeSave: false }) stores the refresh token; the
\* callback redirects to the frontend with the pair.
GoogleSaveToken(p) ==
  /\ req[p].op = "google" /\ req[p].pc = "saveToken"
  /\ IF SaveTokenFails(users, req[p].doc)
       THEN /\ req' = [req EXCEPT ![p] = Reject(req[p], 302, "No document found")]
            /\ UNCHANGED <<users, issued>>
       ELSE /\ users' = SaveToken(users, req[p].doc, req[p].pair.refreshToken)
            /\ req' = [req EXCEPT ![p] = Respond(req[p], 302)]
            /\ issued' = issued \cup Delivered(req[p])
  /\ UNCHANGED <<now, nextId>>
  /\ UNCHANGED <<rateVars, uniq>>

\* ------------------------------------------------------------ ensureUniqueUsername
\* displayName.replace(/\s+/g, '').slice(0, 25): the longest base handle;
\* `${base}${++n}`.slice(0, 30): the longest candidate.
BaseSliceLength == 25
HandleSliceLength == 30

RECURSIVE Digits(_)
Digits(n) == IF n < 10 THEN 1 ELSE 1 + Digits(n \div 10)

RECURSIVE Pow10(_)
Pow10(k) == IF k = 0 THEN 1 ELSE 10 * Pow10(k - 1)

\* The digits of the counter n that slice(0, 30) leaves behind a base of
\* `len` characters, as a number.
RECURSIVE KeptDigits(_, _)
KeptDigits(len, n) ==
  IF len + Digits(n) > HandleSliceLength THEN KeptDigits(len, n \div 10) ELSE n

\* The inputs of a call: the length of the base handle, and a store that
\* holds the base and the base followed by 1, 2, ... up to `taken` handles in
\* all.  The store is sparse, or holds every handle that a base of
\* BaseSliceLength characters leaves room for.
UniqInputs ==
  {[len |-> l, taken |-> k] : l \in {MinUsernameLength, BaseSliceLength},
                              k \in 0..MaxFewTaken}
    \cup {[len |-> BaseSliceLength,
           taken |-> Pow10(HandleSliceLength - BaseSliceLength)]}

\* User.findOne({ username }) for the candidate the call holds: the base when
\* n = 0, else the base followed by the kept digits of n.
CandidateTaken(call) == KeptDigits(call.len, call.n) < call.taken

\* `let username = base; let n = 0;`
InitUniq ==
  /\ now = 0
  /\ users = [i \in UserIds |-> NoUser]
  /\ nextId = 1
  /\ req = [p \in Procs |-> Idle]
  /\ issued = {}
  /\ rateLimits = [u \in UserIds |-> NoWindow]
  /\ lastCall = [user |-> 0, ok |-> FALSE]
  /\ opened = [u \in UserIds |-> -1]
  /\ calls = [u \in UserIds |-> 0]
  /\ admitLog = [u \in UserIds |-> [i \in 0..MaxRateTicks |-> 0]]
  /\ \E input \in UniqInputs :
       uniq = [pc |-> "check", len |-> input.len, taken |-> input.taken, n |-> 0]

\* One turn of `while (await User.findOne({ username }))`: the lookup
\* resolves; a hit moves on to `${base}${++n}`.slice(0, 30), a miss returns
\* the candidate.  A counter with more digits than the handle has room for
\* gives the handle of its kept digits, and counting on from those visits the
\* same handles in the same order, so the counter is held to its kept digits.
UniqTurn ==
  /\ uniq.pc = "check"
  /\ uniq' = IF CandidateTaken(uniq)
               THEN [uniq EXCEPT !.n = KeptDigits(uniq.len, uniq.n + 1)]
               ELSE [uniq EXCEPT !.pc = "returned"]
  /\ UNCHANGED <<now, authVars, rateVars>>

\* The caller takes the handle returned.
UniqDone ==
  /\ uniq.pc = "returned"
  /\ uniq' = [uniq EXCEPT !.pc = "done"]
  /\ UNCHANGED <<now, authVars, rateVars>>

NextUniq == UniqTurn \/ UniqDone

\* Every awaited lookup resolves and its continuation runs.
SpecUniq == InitUniq /\ [][NextUniq]_vars /\ WF_vars(UniqTurn) /\ WF_vars(UniqDone)

\* ------------------------------------------------------------ access tokens
\* A middleware that also wants the principal to hold a stored refresh token.
AuthOutcomeSession(tok, nowMs, store) ==
  IF tok = NoTok
    THEN [status |-> 401, error |-> "Access token required", principal |-> 0]
  ELSE IF JwtVerify(tok, "access", nowMs) = "expired"
    THEN [status |-> 401, error |-> "Token expired", principal |-> 0]
  ELSE IF JwtVerify(tok, "access", nowMs) = "invalid"
    THEN [status |-> 401, error |-> "Invalid token", principal |-> 0]
  ELSE IF findById(store, tok.userId) = NoDoc
         \/ findById(store, tok.userId).refreshToken = NoTok
    THEN [status |-> 401, error |-> "User not found", principal |-> 0]
  ELSE [status |-> 0, error |-> "", principal |-> tok.userId]

\* What authenticateToken answers for a bearer token at a time and a store:
\* a 401 with its message, or next() with req.user.id set.
AuthOutcome(tok, nowMs, store) ==
  IF tok = NoTok
    THEN [status |-> 401, error |-> "Access token required", principal |-> 0]
  ELSE IF JwtVerify(tok, "access", nowMs) = "expired"
    THEN [status |-> 401, error |-> "Token expired", principal |-> 0]
  ELSE IF JwtVerify(tok, "access", nowMs) = "invalid"
    THEN [status |-> 401, error |-> "Invalid token", principal |-> 0]
  ELSE IF findById(store, tok.userId) = NoDoc
    THEN [status |-> 401, error |-> "User not found", principal |-> 0]
  ELSE [status |-> 0, error |-> "", principal |-> tok.userId]

\* The authenticateToken middleware in front of a protected route.
Authenticate(p, tok) ==
  /\ FreeSlot(p)
  /\ LET out == AuthOutcome(tok, now, users)
     IN req' = [req EXCEPT ![p] =
          [Idle EXCEPT !.op = "auth", !.pc = "done", !.tok = tok, !.status = out.status,
                       !.error = out.error, !.principal = out.principal]]
  /\ UNCHANGED <<now, users, nextId, issued>>
  /\ UNCHANGED <<rateVars, uniq>>

\* DELETE /user/:id: User.findByIdAndDelete(id) removes the document.
DeleteUser(id) ==
  /\ users[id].exists
  /\ users' = [users EXCEPT ![id] = NoUser]
  /\ UNCHANGED <<now, nextId, req, issued>>
  /\ UNCHANGED <<rateVars, uniq>>

\* PUT /user/:id by the principal itself: findById, `user.username = username`,
\* user.save(); the unique index on username refuses a handle that is taken
\* (400 'Username or email already exists') and nothing is written.
UpdateUser(id, username) ==
  /\ users[id].exists
  /\ users[id].username # username
  /\ ~UsernameTaken(users, username)
  /\ users' = [users EXCEPT ![id].username = username]
  /\ UNCHANGED <<now, nextId, req, issued>>
  /\ UNCHANGED <<rateVars, uniq>>

\* ------------------------------------------------------------ environment
\* The client has its response; the handler takes the next request.
Finish(p) ==
  /\ req[p].pc = "done"
  /\ req' = [req EXCEPT ![p] = Idle]
  /\ UNCHANGED <<now, users, nextId, issued>>
  /\ UNCHANGED <<rateVars, uniq>>

\* Time passes.
Tick ==
  /\ now < MaxTicks * TickMs
  /\ now' = now + TickMs
  /\ UNCHANGED <<users, nextId, req, issued>>
  /\ UNCHANGED <<rateVars, uniq>>

ProfileName(k) == [base |-> k, n |-> 0]

\* ------------------------------------------------------------ rate limiter
RATE_LIMIT == 10
RATE_WINDOW_MS == 60 * 1000

\* A limiter whose window is still closed at the instant resetAt.
checkRateLimitLate(limits, userId, nowMs) ==
  LET record == limits[userId]
  IN IF record = NoWindow \/ nowMs > record.resetAt
       THEN [limits |-> [limits EXCEPT ![userId] =
                           [count |-> 1, resetAt |-> nowMs + RATE_WINDOW_MS]],
             ok |-> TRUE]
     ELSE IF record.count >= RATE_LIMIT
       THEN [limits |-> limits, ok |-> FALSE]
     ELSE [limits |-> [limits EXCEPT ![userId].count = record.count + 1],
           ok |-> TRUE]

\* A limiter that keeps one window for everybody, under the first principal's key.
checkRateLimitShared(limits, userId, nowMs) ==
  LET record == limits[1]
  IN IF record = NoWindow \/ nowMs >= record.resetAt
       THEN [limits |-> [limits EXCEPT ![1] =
                           [count |-> 1, resetAt |-> nowMs + RATE_WINDOW_MS]],
             ok |-> TRUE]
     ELSE IF record.count >= RATE_LIMIT
       THEN [limits |-> limits, ok |-> FALSE]
     ELSE [limits |-> [limits EXCEPT ![1].count = record.count + 1],
           ok |-> TRUE]

\* A limiter whose increment is lost, as when the count is written back from
\* a read that another request has since overtaken.
checkRateLimitLostUpdate(limits, userId, nowMs) ==
  LET record == limits[userId]
  IN IF record = NoWindow \/ nowMs >= record.resetAt
       THEN [limits |-> [limits EXCEPT ![userId] =
                           [count |-> 1, resetAt |-> nowMs + RATE_WINDOW_MS]],
             ok |-> TRUE]
     ELSE IF record.count >= RATE_LIMIT
       THEN [limits |-> limits, ok |-> FALSE]
     ELSE [limits |-> limits, ok |-> TRUE]

\* A limiter whose window slides: every admitted call moves the reset time.
checkRateLimitSliding(limits, userId, nowMs) ==
  LET record == limits[userId]
  IN IF record = NoWindow \/ nowMs >= record.resetAt
       THEN [limits |-> [limits EXCEPT ![userId] =
                           [count |-> 1, resetAt |-> nowMs + RATE_WINDOW_MS]],
             ok |-> TRUE]
     ELSE IF record.count >= RATE_LIMIT
       THEN [limits |-> limits, ok |-> FALSE]
     ELSE [limits |-> [limits EXCEPT ![userId] =
                         [count |-> record.count + 1,
                          resetAt |-> nowMs + RATE_WINDOW_MS]],
           ok |-> TRUE]

\* A limiter whose windows last half as long.
checkRateLimitShortWindow(limits, userId, nowMs) ==
  LET record == limits[userId]
  IN IF record = NoWindow \/ nowMs >= record.resetAt
       THEN [limits |-> [limits EXCEPT ![userId] =
                           [count |-> 1, resetAt |-> nowMs + RATE_WINDOW_MS \div 2]],
             ok |-> TRUE]
     ELSE IF record.count >= RATE_LIMIT
       THEN [limits |-> limits, ok |-> FALSE]
     ELSE [limits |-> [limits EXCEPT ![userId].count = record.count + 1],
           ok |-> TRUE]

\* checkRateLimit(userId) at Date.now() = nowMs: the Map afterwards and the
\* value returned.
checkRateLimit(limits, userId, nowMs) ==
  LET record == limits[userId]
  IN IF record = NoWindow \/ nowMs >= record.resetAt
       THEN [limits |-> [limits EXCEPT ![userId] =
                           [count |-> 1, resetAt |-> nowMs + RATE_WINDOW_MS]],
             ok |-> TRUE]
     ELSE IF record.count >= RATE_LIMIT
       THEN [limits |-> limits, ok |-> FALSE]
     ELSE [limits |-> [limits EXCEPT ![userId].count = record.count + 1],
           ok |-> TRUE]

\* An observer's account of the windows, kept apart from the limiter's Map: a
\* principal's window opens with its first call ever or its first call at or
\* after the previous window's end, and lasts RATE_WINDOW_MS.
WindowOpen(u) == opened[u] >= 0 /\ now < opened[u] + RATE_WINDOW_MS

\* The clock tick the present instant falls on.
Instant == now \div RateTickMs

\* Calls are followed up to MaxDenied past the ceiling of a window.
MayCall(u) == WindowOpen(u) => calls[u] < RATE_LIMIT + MaxDenied

\* checkRateLimit(u) is called now: the Map is updated as the code updates it,
\* and the observer notes the call; with `timed`, also the instant of an
\* admitted call.
Called(u, timed) ==
  LET out == checkRateLimit(rateLimits, u, now)
  IN /\ rateLimits' = out.limits
     /\ lastCall' = [user |-> u, ok |-> out.ok]
     /\ opened' = [opened EXCEPT ![u] = IF WindowOpen(u) THEN opened[u] ELSE now]
     /\ calls' = [calls EXCEPT ![u] = IF WindowOpen(u) THEN calls[u] + 1 ELSE 1]
     /\ admitLog' = IF timed /\ out.ok
                      THEN [admitLog EXCEPT ![u][Instant] = admitLog[u][Instant] + 1]
                      ELSE admitLog
     /\ uniq' = uniq

\* One call of checkRateLimit for principal u.
Admit(u) ==
  /\ MayCall(u)
  /\ Called(u, FALSE)
  /\ UNCHANGED <<now, authVars>>

\* The same call, with the observer timing it.
AdmitTimed(u) ==
  /\ MayCall(u)
  /\ Called(u, TRUE)
  /\ UNCHANGED <<now, authVars>>

RateTick ==
  /\ now < MaxRateTicks * RateTickMs
  /\ now' = now + RateTickMs
  /\ UNCHANGED <<authVars, rateVars, uniq>>

NextRate ==
  \/ \E u \in UserIds : Admit(u)
  \/ RateTick

SpecRate == Init /\ [][NextRate]_vars

\* The calls of principal u admitted at the instants i..j, as the observer
\* timed them.
RECURSIVE AdmittedBetween(_, _, _)
AdmittedBetween(u, i, j) ==
  IF i > j THEN 0 ELSE admitLog[u][i] + AdmittedBetween(u, i + 1, j)

\* The limiter under the calls of one principal, each admitted call timed.
NextBurst ==
  \/ AdmitTimed(1)
  \/ RateTick

SpecBurst == Init /\ [][NextBurst]_vars

\* ------------------------------------------------------------ search: data
\* Post ids are 1..NumPosts; NumPosts + 1 is an id string that names no post.
PostIds == 1..NumPosts

\* A value that may be absent or of another type than string is <<>>; a
\* string value v is <<v>>.  In the strings below FENCE stands for three
\* backticks.
Fenced == "see FENCExFENCE"
Unfenced == "see x"
Reasons == {<<>>, <<"">>, <<"about cats">>, <<Fenced>>}
ItemIds == {<<>>} \cup {<<i>> : i \in 1..(NumPosts + 1)}

\* An element of a JSON array: an object with (maybe) id and reason, or
\* something that is no object (null, a number).
NullItem == [obj |-> FALSE, id |-> <<>>, reason |-> <<>>]
Items == [obj : {TRUE}, id : ItemIds, reason : Reasons] \cup {NullItem}

Arrays == UNION {[1..n -> Items] : n \in 0..MaxItems}

\* The text of an upstream response: what surrounds the body (nothing, a
\* ```json fence, a bare ``` fence, a ```js fence), whether the body is
\* parseable JSON, and the JSON value.
Fences == {"", "FENCEjson", "FENCE", "FENCEjs"}

ArrayTexts ==
  [fence : Fences, parses : {TRUE}, kind : {"array"}, items : Arrays]

OtherTexts ==
  [fence : Fences, parses : BOOLEAN, kind : {"object", "null"}, items : {<<>>}]

\* The posts Post.find() returns: distinct ids, in the order of the database.
CandidateLists ==
  {c \in UNION {[1..n -> PostIds] : n \in 0..NumPosts} :
     \A i, j \in DOMAIN c : i # j => c[i] # c[j]}

\* What the upstream call comes back with: a response text, or an error with
\* its HTTP status (0: none) and whether its message mentions 'API key'.
Answer(text) == [ok |-> TRUE, text |-> text, status |-> 0, apiKey |-> FALSE]
Failure(status, apiKey) ==
  [ok |-> FALSE, text |-> NoText, status |-> status, apiKey |-> apiKey]
Failures == {Failure(st, k) : st \in {0, 401, 429, 500}, k \in BOOLEAN}

\* ------------------------------------------------------------ search: functions
\* response.replace(/```json\n?|\n?```/g, '') on a string inside the text.
StripMarks(value) == IF value = <<Fenced>> THEN <<Unfenced>> ELSE value

\* A cleaning that removes a fence together with whatever language tag follows it.
CleanedAnyFence(text) ==
  [fence |-> "",
   parses |-> text.parses,
   kind |-> text.kind,
   items |-> [i \in DOMAIN text.items |->
               [text.items[i] EXCEPT !.reason = StripMarks(text.items[i].reason)]]]

\* response.replace(/```json\n?|\n?```/g, '').trim(): every ```json and every
\* ``` goes, wherever it stands; of a ```js fence the letters js remain.
Cleaned(text) ==
  [fence |-> "",
   parses |-> text.parses /\ text.fence # "FENCEjs",
   kind |-> text.kind,
   items |-> [i \in DOMAIN text.items |->
               [text.items[i] EXCEPT !.reason = StripMarks(text.items[i].reason)]]]

\* parsed.filter(item => item && typeof item.id === 'string')
KeptItems(items) == SelectSeq(items, LAMBDA item : item.obj /\ item.id # <<>>)

\* .map(item => ({ id, reason: typeof item.reason === 'string' ? item.reason
\*                                                            : 'Relevant to search' }))
ToResult(item) ==
  [id |-> item.id[1],
   reason |-> IF item.reason # <<>> THEN item.reason[1] ELSE "Relevant to search"]

\* parseSearchResults(response)
parseSearchResults(text) ==
  LET cleaned == Cleaned(text)
  IN IF ~cleaned.parses THEN <<>>
     ELSE IF cleaned.kind # "array" THEN <<>>
     ELSE [i \in DOMAIN KeptItems(cleaned.items) |-> ToResult(KeptItems(cleaned.items)[i])]

\* A Map that keeps the first entry for an id.
ResultIndexFirst(results, id) ==
  LET at == {i \in DOMAIN results : results[i].id = id}
  IN IF at = {} THEN 0 ELSE CHOOSE i \in at : \A j \in at : i <= j

\* new Map(searchResults.map((r, index) => [r.id, { index, reason }])): a
\* later entry for an id replaces an earlier one.
ResultIndex(results, id) ==
  LET at == {i \in DOMAIN results : results[i].id = id}
  IN IF at = {} THEN 0 ELSE CHOOSE i \in at : \A j \in at : j <= i

\* Array.prototype.sort by the Map's index (stable insertion into a sorted list).
RECURSIVE SortByIndex(_, _)
SortByIndex(posts, results) ==
  IF posts = <<>> THEN <<>>
  ELSE LET rest == SortByIndex(Tail(posts), results)
           key == ResultIndex(results, Head(posts))
           before == SelectSeq(rest, LAMBDA x : ResultIndex(results, x) < key)
           after == SelectSeq(rest, LAMBDA x : ResultIndex(results, x) >= key)
       IN before \o <<Head(posts)>> \o after

\* A matching that keeps the candidates in the order of the database.
MatchedPostsUnsorted(posts, results) ==
  LET has == SelectSeq(posts, LAMBDA x : ResultIndex(results, x) # 0)
  IN [i \in DOMAIN has |->
       [id |-> has[i],
        searchReason |->
          IF results[ResultIndex(results, has[i])].reason = ""
            THEN "Relevant to search"
            ELSE results[ResultIndex(results, has[i])].reason]]

\* posts.filter(has).sort(by index).map(p => ({ ...p, searchReason:
\*   resultMap.get(id)?.reason || 'Relevant to search' }))
MatchedPosts(posts, results) ==
  LET has == SelectSeq(posts, LAMBDA x : ResultIndex(results, x) # 0)
      sorted == SortByIndex(has, results)
  IN [i \in DOMAIN sorted |->
       [id |-> sorted[i],
        searchReason |->
          IF results[ResultIndex(results, sorted[i])].reason = ""
            THEN "Relevant to search"
            ELSE results[ResultIndex(results, sorted[i])].reason]]

\* The matching of the version that ranks by ids alone:
\* idOrder = new Map(relevantIds.map((id, index) => [id, index]));
\* posts.filter(p => relevantIds.includes(id)).sort(by idOrder).
MatchedIds(posts, relevantIds) ==
  LET idOrder == [i \in DOMAIN relevantIds |-> [id |-> relevantIds[i], reason |-> ""]]
      has == SelectSeq(posts, LAMBDA x : \E i \in DOMAIN relevantIds : relevantIds[i] = x)
  IN SortByIndex(has, idOrder)

\* The catch block of searchPosts: what is reported for an upstream error.
ReportedError(failure) ==
  IF failure.status = 401 \/ failure.apiKey
    THEN "AI service authentication failed"
  ELSE IF failure.status = 429
    THEN "AI service rate limit exceeded"
  ELSE "AI search failed"

\* ------------------------------------------------------------ search: handler
\* response.text || '[]'
EmptyArrayText == [fence |-> "", parses |-> TRUE, kind |-> "array", items |-> <<>>]

ResponseText(outcome) ==
  IF outcome.text = NoText THEN EmptyArrayText ELSE outcome.text

\* Bearer tokens a client may send with a search: none, a malformed one, the
\* access tokens delivered so far, and one minted just now for a principal
\* that exists (by a login at this instant).
Bearers ==
  {NoTok, Garbage} \cup {AccessOf(t) : t \in issued}
    \cup {JwtSign("access", u, now) : u \in ExistingIds(users)}

\* GET /ai/search: authenticateToken (jwt.verify, findById resolves), then
\* searchPosts up to `await Post.find()`: the query and configuration checks
\* and checkRateLimit.
SearchStart(p, tok, query, configured) ==
  /\ FreeSlot(p)
  /\ LET auth == AuthOutcome(tok, now, users)
         r == [Idle EXCEPT !.op = "search", !.tok = tok]
     IN IF auth.status # 0
          THEN /\ req' = [req EXCEPT ![p] = Reject(r, auth.status, auth.error)]
               /\ UNCHANGED <<rateVars, uniq>>
        ELSE IF query \in {"", " "}
          THEN /\ req' = [req EXCEPT ![p] = Reject(r, 400, "Search query is required")]
               /\ UNCHANGED <<rateVars, uniq>>
        ELSE IF ~configured
          THEN /\ req' = [req EXCEPT ![p] = Reject(r, 500, "AI search is not configured")]
               /\ UNCHANGED <<rateVars, uniq>>
        ELSE /\ MayCall(auth.principal)
             /\ Called(auth.principal, FALSE)
             /\ req' = [req EXCEPT ![p] =
                  IF checkRateLimit(rateLimits, auth.principal, now).ok
                    THEN [r EXCEPT !.pc = "find", !.principal = auth.principal]
                    ELSE Reject(r, 429, "Rate limit exceeded. Try again in a minute.")]
  /\ UNCHANGED <<now, users, nextId, issued>>

\* A handler that sends the prompt upstream whatever the candidates are.
SearchFindAlwaysAsks(p, posts) ==
  /\ req[p].op = "search" /\ req[p].pc = "find"
  /\ req' = [req EXCEPT ![p] =
       [req[p] EXCEPT !.pc = "upstream", !.posts = posts, !.invoked = TRUE]]
  /\ UNCHANGED <<now, users, nextId, issued>>
  /\ UNCHANGED <<rateVars, uniq>>

\* Post.find() resolves with the candidates; searchPostsByAI returns [] for an
\* empty list, and otherwise sends the prompt to the upstream service.
SearchFind(p, posts) ==
  /\ req[p].op = "search" /\ req[p].pc = "find"
  /\ req' = [req EXCEPT ![p] =
       IF Len(posts) = 0
         THEN [Idle EXCEPT !.op = "search", !.pc = "done", !.tok = req[p].tok,
                           !.status = 200]
         ELSE [req[p] EXCEPT !.pc = "upstream", !.posts = posts, !.invoked = TRUE]]
  /\ UNCHANGED <<now, users, nextId, issued>>
  /\ UNCHANGED <<rateVars, uniq>>

\* A catch block that gives the admission slot back when the fetch fails.
SearchFindFailsRefunds(p) ==
  /\ req[p].op = "search" /\ req[p].pc = "find"
  /\ req' = [req EXCEPT ![p] = Reject(req[p], 500, "AI search failed")]
  /\ rateLimits' = [rateLimits EXCEPT ![req[p].principal].count = @ - 1]
  /\ UNCHANGED <<now, users, nextId, issued>>
  /\ UNCHANGED <<lastCall, opened, calls, admitLog, uniq>>

\* Post.find() rejects: the catch block answers.
SearchFindFails(p) ==
  /\ req[p].op = "search" /\ req[p].pc = "find"
  /\ req' = [req EXCEPT ![p] = Reject(req[p], 500, "AI search failed")]
  /\ UNCHANGED <<now, users, nextId, issued>>
  /\ UNCHANGED <<rateVars, uniq>>

\* A handler that asks the upstream service again when it fails.
SearchUpstreamRetries(p, outcome) ==
  /\ req[p].op = "search" /\ req[p].pc = "upstream"
  /\ req' = [req EXCEPT ![p] =
       IF outcome.ok
         THEN [Idle EXCEPT !.op = "search", !.pc = "done", !.tok = req[p].tok,
                           !.status = 200, !.posts = req[p].posts, !.invoked = TRUE,
                           !.upstream = outcome,
                           !.result = MatchedPosts(req[p].posts,
                                        parseSearchResults(ResponseText(outcome)))]
         ELSE [req[p] EXCEPT !.upstream = outcome]]
  /\ UNCHANGED <<now, users, nextId, issued>>
  /\ UNCHANGED <<rateVars, uniq>>

\* generateContent settles: the text is parsed and the candidates are matched
\* against it, or the catch block reports the error.
SearchUpstream(p, outcome) ==
  /\ req[p].op = "search" /\ req[p].pc = "upstream"
  /\ req' = [req EXCEPT ![p] =
       IF outcome.ok
         THEN [Idle EXCEPT !.op = "search", !.pc = "done", !.tok = req[p].tok,
                           !.status = 200, !.posts = req[p].posts, !.invoked = TRUE,
                           !.upstream = outcome,
                           !.result = MatchedPosts(req[p].posts,
                                        parseSearchResults(ResponseText(outcome)))]
         ELSE [Idle EXCEPT !.op = "search", !.pc = "done", !.tok = req[p].tok,
                           !.status = 500, !.error = ReportedError(outcome),
                           !.posts = req[p].posts, !.invoked = TRUE,
                           !.upstream = outcome]]
  /\ UNCHANGED <<now, users, nextId, issued>>
  /\ UNCHANGED <<rateVars, uniq>>

\* Google sign-ins and registrations, one request at a time: two identities,
\* whose display names may give the same handle or a handle of two characters.
NextFed ==
  \/ \E k \in Profiles : RegisterStart(1, ProfileName(k), k, "secret1")
  \/ RegisterInsert(1)
  \/ RegisterSave(1)
  \/ \E k \in Profiles, base \in {1, ShortBase} : GoogleStart(1, k, k, base)
  \/ GoogleUniq(1)
  \/ GoogleInsert(1)
  \/ GoogleSaveLink(1)
  \/ GoogleSaveToken(1)
  \/ Finish(1)
  \/ Tick

SpecFed == Init /\ [][NextFed]_vars

\* Searches of one principal handled concurrently, while the limiter's
\* windows open and expire.
SampleTexts ==
  {NoText,
   [fence |-> "FENCEjson", parses |-> TRUE, kind |-> "array",
    items |-> <<[obj |-> TRUE, id |-> <<1>>, reason |-> <<"about cats">>]>>],
   [fence |-> "", parses |-> FALSE, kind |-> "object", items |-> <<>>]}

SampleFailures == {Failure(401, TRUE), Failure(429, FALSE), Failure(0, FALSE)}

NextSearch ==
  \/ \E p \in Procs : RegisterStart(p, ProfileName(1), 1, "secret1")
  \/ \E p \in Procs : RegisterInsert(p)
  \/ \E p \in Procs : RegisterSave(p)
  \/ \E p \in Procs, tok \in Bearers, query \in {"", "cats"}, configured \in BOOLEAN :
       SearchStart(p, tok, query, configured)
  \/ \E p \in Procs, posts \in {<<>>, <<1>>} : SearchFind(p, posts)
  \/ \E p \in Procs : SearchFindFails(p)
  \/ \E p \in Procs, outcome \in {Answer(t) : t \in SampleTexts} \cup SampleFailures :
       SearchUpstream(p, outcome)
  \/ \E p \in Procs : Finish(p)
  \/ RateTick

SpecSearch == Init /\ [][NextSearch]_vars

\* One search at a time, over every candidate list and upstream response.
NextRank ==
  \/ RegisterStart(1, ProfileName(1), 1, "secret1")
  \/ RegisterInsert(1)
  \/ RegisterSave(1)
  \/ \E tok \in Bearers : SearchStart(1, tok, "cats", TRUE)
  \/ \E posts \in CandidateLists : SearchFind(1, posts)
  \/ SearchFindFails(1)
  \/ \E outcome \in {Answer(t) : t \in ArrayTexts \cup OtherTexts \cup {NoText}}
                      \cup Failures :
       SearchUpstream(1, outcome)
  \/ Finish(1)

SpecRank == Init /\ [][NextRank]_vars

\* The token lifecycle under concurrent requests of one identity: every
\* handler of the auth controller, the middleware and user deletion.
\* Response arrays of up to MaxRepeatItems elements in which ids may repeat:
\* no fence, every element null or an object with a string id.
RepeatItems ==
  [obj : {TRUE}, id : ItemIds \ {<<>>}, reason : {<<>>, <<"about cats">>}]
    \cup {NullItem}

RepeatTexts ==
  [fence : {""}, parses : {TRUE}, kind : {"array"},
   items : UNION {[1..n -> RepeatItems] : n \in 0..MaxRepeatItems}]

\* One search at a time, over every candidate list and such responses.
NextRepeat ==
  \/ RegisterStart(1, ProfileName(1), 1, "secret1")
  \/ RegisterInsert(1)
  \/ RegisterSave(1)
  \/ \E tok \in Bearers : SearchStart(1, tok, "cats", TRUE)
  \/ \E posts \in CandidateLists : SearchFind(1, posts)
  \/ \E t \in RepeatTexts : SearchUpstream(1, Answer(t))
  \/ Finish(1)

SpecRepeat == Init /\ [][NextRepeat]_vars

\* Registrations, Google sign-ins and handle changes of two handlers side by
\* side: two handles, two contact addresses, two Google ids, in any pairing.
NextRace ==
  \/ \E p \in Procs, k \in Profiles, e \in Profiles :
       RegisterStart(p, ProfileName(k), e, "secret1")
  \/ \E p \in Procs : RegisterInsert(p)
  \/ \E p \in Procs : RegisterSave(p)
  \/ \E p \in Procs, g \in Profiles, e \in Profiles, k \in Profiles :
       GoogleStart(p, g, e, k)
  \/ \E p \in Procs : GoogleUniq(p)
  \/ \E p \in Procs : GoogleInsert(p)
  \/ \E p \in Procs : GoogleSaveLink(p)
  \/ \E p \in Procs : GoogleSaveToken(p)
  \/ \E id \in UserIds, k \in Profiles : UpdateUser(id, ProfileName(k))
  \/ \E p \in Procs : Finish(p)

SpecRace == Init /\ [][NextRace]_vars

NextAuth ==
  \/ \E p \in Procs, pw \in {"", "abc", "secret1"} :
       RegisterStart(p, ProfileName(1), 1, pw)
  \/ \E p \in Procs : RegisterInsert(p)
  \/ \E p \in Procs : RegisterSave(p)
  \/ \E p \in Procs, pw \in {"", "secret1", "wrong-pw"} : LoginStart(p, 1, pw)
  \/ \E p \in Procs : LoginSave(p)
  \/ \E p \in Procs, tok \in Presentable \cup {NoTok} : LogoutStart(p, tok)
  \/ \E p \in Procs : LogoutSave(p)
  \/ \E p \in Procs, tok \in Presentable \cup {NoTok} : RefreshStart(p, tok)
  \/ \E p \in Procs : RefreshSave(p)
  \/ \E p \in Procs, tok \in Presentable \cup {NoTok} : Authenticate(p, tok)
  \/ \E id \in UserIds : DeleteUser(id)
  \/ \E p \in Procs : Finish(p)
  \/ Tick

SpecAuth == Init /\ [][NextAuth]_vars

\* The same handlers and the Google sign-in, one request at a time, for
\* several identities.
NextSeq ==
  \/ \E k \in Profiles, pw \in {"", "abc", "secret1"} :
       RegisterStart(1, ProfileName(k), k, pw)
  \/ RegisterInsert(1)
  \/ RegisterSave(1)
  \/ \E k \in Profiles, pw \in {"", "secret1", "wrong-pw"} : LoginStart(1, k, pw)
  \/ LoginSave(1)
  \/ \E tok \in Presentable \cup {NoTok} : LogoutStart(1, tok)
  \/ LogoutSave(1)
  \/ \E tok \in Presentable \cup {NoTok} : RefreshStart(1, tok)
  \/ RefreshSave(1)
  \/ \E k \in Profiles \cup {0} : GoogleStart(1, k, k, k)
  \/ GoogleUniq(1)
  \/ GoogleInsert(1)
  \/ GoogleSaveLink(1)
  \/ GoogleSaveToken(1)
  \/ \E tok \in Presentable \cup {NoTok} : Authenticate(1, tok)
  \/ \E id \in UserIds : DeleteUser(id)
  \/ Finish(1)
  \/ Tick

SpecSeq == Init /\ [][NextSeq]_vars

\* ============================================================ properties
\* C1: when two refresh requests presenting the same stored token run
\* concurrently (neither arrived after the other was answered), they never
\* both return a new pair; stated for rotations whose new token differs from
\* the one presented.
C1_OneWinner ==
  \A p, q \in Procs :
    LET won(x) == /\ req[x].pc = "done" /\ req[x].op = "refresh"
                  /\ req[x].status = 200
                  /\ req[x].pair.refreshToken # req[x].tok
    IN (p # q /\ won(p) /\ won(q) /\ req[p].tok = req[q].tok)
         => (req[p].afterUse \/ req[q].afterUse)

\* C2: a refresh request that arrives after a refresh presenting the same
\* token was answered with a new pair is not itself answered with a new pair.
C2_SingleUse ==
  \A p \in Procs :
    (req[p].pc = "done" /\ req[p].op = "refresh" /\ req[p].afterUse)
      => req[p].status # 200

\* C3: a refresh request that arrives after a logout presenting the same
\* token was answered 200 is not answered with a new pair.
C3_RevokedIsStale ==
  \A p \in Procs :
    (req[p].pc = "done" /\ req[p].op = "refresh" /\ req[p].afterRevoke)
      => req[p].status # 200

\* C4: when a register, login, Google sign-in or refresh for principal P
\* returns a pair while no other request for P is in flight, P's stored token
\* is the returned refresh token and refresh accepts no refresh token that an
\* earlier response delivered for P.
C4_NewSupersedesOld ==
  [][\A p \in Procs :
       LET P == req'[p].pair.refreshToken.userId
       IN (/\ req[p].pc # "done" /\ req'[p].pc = "done"
           /\ req'[p].op \in {"register", "login", "google", "refresh"}
           /\ req'[p].pair # NoPair
           /\ \A q \in Procs \ {p} : InFlight(q) => req[q].doc.id # P)
          => /\ users'[P].refreshToken = req'[p].pair.refreshToken
             /\ \A T \in issued :
                  T.userId = P => ~RefreshAccepts(T, now', users')]_vars

\* C8: any two 401 answers of the access-token middleware, refresh and logout
\* carry the same response, whatever made each request fail.
C8_UniformRejection ==
  \A p, q \in Procs :
    LET refused(x) == /\ req[x].pc = "done" /\ req[x].status = 401
                      /\ req[x].op \in {"auth", "refresh", "logout"}
    IN (refused(p) /\ refused(q)) => req[p].error = req[q].error

C7_StaleRejected ==
  [][\A p \in Procs :
       /\ (/\ req[p].pc = "idle" /\ req'[p].op = "refresh"
           /\ JwtVerify(req'[p].tok, "refresh", now) = "ok"
           /\ LET P == req'[p].tok.userId
              IN \/ ~users[P].exists
                 \/ users[P].refreshToken = NoTok
                 \/ users[P].refreshToken # req'[p].tok)
          => req'[p].pc = "done" /\ req'[p].status = 401
       /\ (/\ req[p].pc # "done" /\ req'[p].pc = "done"
           /\ req'[p].op = "refresh" /\ req'[p].status = 401)
          => /\ req'[p].pair = NoPair
             /\ users' = users
             /\ issued' = issued]_vars

\* A verified refresh token was refused because its principal holds another
\* stored token.
C7_Witness ==
  \E p \in Procs :
    /\ req[p].pc = "done" /\ req[p].op = "refresh" /\ req[p].status = 401
    /\ req[p].error = "Invalid refresh token"
    /\ users[req[p].tok.userId].exists
    /\ users[req[p].tok.userId].refreshToken \notin {NoTok, req[p].tok}

\* C9: a principal's call is admitted exactly when it is among the first
\* RATE_LIMIT calls of its window, where a window opens with the first call
\* ever or the first call at or after the previous window's reset time and
\* the reset time is RATE_WINDOW_MS after the opening call.
C9_CeilingPerWindow ==
  /\ RATE_LIMIT = 10 /\ RATE_WINDOW_MS = 60000
  /\ lastCall.user # 0 => lastCall.ok = (calls[lastCall.user] <= RATE_LIMIT)
  /\ \A u \in UserIds :
       opened[u] >= 0 => rateLimits[u].resetAt = opened[u] + RATE_WINDOW_MS

\* The eleventh call of a window was refused.
C9_Witness ==
  /\ lastCall.user # 0 /\ ~lastCall.ok
  /\ calls[lastCall.user] = RATE_LIMIT + 1
  /\ now < opened[lastCall.user] + RATE_WINDOW_MS

\* C10: a checkRateLimit call for one principal leaves every other principal's
\* window as it was, and with it what that principal's next call returns.
C10_WindowsIsolated ==
  [][\A u \in UserIds :
       Admit(u) => \A v \in UserIds \ {u} :
                     /\ rateLimits'[v] = rateLimits[v]
                     /\ checkRateLimit(rateLimits', v, now').ok
                          = checkRateLimit(rateLimits, v, now).ok]_vars

\* One principal was admitted while another's window was exhausted.
C10_Witness ==
  \E u, v \in UserIds :
    /\ u # v
    /\ lastCall = [user |-> v, ok |-> TRUE]
    /\ rateLimits[u].count = RATE_LIMIT /\ calls[u] > RATE_LIMIT
    /\ now < rateLimits[u].resetAt

C12_MalformedIsEmpty ==
  [][\A p \in Procs :
       LET text == req'[p].upstream.text
       IN (/\ req[p].op = "search" /\ req[p].pc = "upstream"
           /\ req'[p].pc = "done" /\ req'[p].upstream.ok
           /\ ~text.parses \/ text.fence = "FENCEjs" \/ text.kind # "array")
          => /\ req'[p].status = 200 /\ req'[p].error = ""
             /\ req'[p].result = <<>>]_vars

\* A response that is no JSON was answered 200 with no results although
\* there were candidates.
C12_Witness ==
  \E p \in Procs :
    /\ req[p].op = "search" /\ req[p].pc = "done" /\ req[p].upstream.ok
    /\ req[p].upstream.text # NoText /\ ~req[p].upstream.text.parses
    /\ Len(req[p].posts) > 0
    /\ req[p].status = 200 /\ req[p].result = <<>>

\* C13: a search whose candidate list comes back empty is answered at once
\* with 200 and an empty result, without the upstream service having been
\* called for it; a search for which the upstream service was called had
\* candidates.
C13_EmptyShortCircuits ==
  [][\A p \in Procs :
       /\ SearchFind(p, <<>>)
            => /\ req'[p].pc = "done" /\ req'[p].status = 200
               /\ req'[p].result = <<>> /\ ~req'[p].invoked
       /\ (req'[p].op = "search" /\ req'[p].invoked) => Len(req'[p].posts) > 0]_vars

\* An admitted search found no candidates and was answered without an
\* upstream call.
C13_Witness ==
  \E p \in Procs :
    /\ req[p].op = "search" /\ req[p].pc = "done" /\ req[p].status = 200
    /\ ~req[p].invoked /\ req[p].result = <<>>
    /\ lastCall.ok

\* C14: the failures of a search are told apart by what is reported: a local
\* rate-limit denial, a failed access-token check, an upstream authentication
\* failure (status 401, or a message about the API key on an error that is no
\* throttling), an upstream throttling (status 429) and any other upstream
\* failure are reported differently, whatever the upstream error is.
C14_KindsDistinct ==
  \A p \in Procs, g \in Failures :
    LET kind(f) == IF f.status = 429 THEN "throttled"
                   ELSE IF f.status = 401 \/ f.apiKey THEN "unauthenticated"
                   ELSE "failed"
        r == req[p]
    IN (r.op = "search" /\ r.pc = "done" /\ r.status # 200)
         => /\ (r.invoked /\ kind(r.upstream) # kind(g))
                 => <<r.status, r.error>> # <<500, ReportedError(g)>>
            /\ r.status \in {401, 429}
                 => <<r.status, r.error>> # <<500, ReportedError(g)>>
            /\ r.status = 401 => r.error # "Rate limit exceeded. Try again in a minute."

\* C15: every Google sign-in that has run to its end leaves exactly one
\* principal carrying the asserted Google id, so that two sign-ins with the
\* same assertion for a new identity provision one principal, and the second
\* resolves to it without creating another.
C15_OnePrincipalPerIdentity ==
  [][\A p \in Procs :
       LET g == IF req[p].pc \in {"uniq", "insert"} THEN req[p].googleId
                ELSE req[p].doc.googleId
           holders == {i \in ExistingIds(users') : users'[i].googleId = g}
       IN (req[p].op = "google" /\ req[p].pc # "done" /\ req'[p].pc = "done")
            => Cardinality(holders) = 1]_vars

\* C16: a Google sign-in that provisions a new identity creates a principal
\* whose handle no other principal has: the derived base handle when that is
\* free, and otherwise that base with a numeric suffix.
C16_CollisionGetsSuffix ==
  [][\A p \in Procs :
       (req[p].op = "google" /\ req[p].pc = "insert" /\ req'[p].pc # "insert")
         => LET base == [base |-> req[p].username.base, n |-> 0]
                taken == \E i \in ExistingIds(users) : users[i].username = base
            IN /\ nextId' = nextId + 1
               /\ users'[nextId].exists
               /\ users'[nextId].googleId = req[p].googleId
               /\ \A i \in ExistingIds(users) :
                    users[i].username # users'[nextId].username
               /\ users'[nextId].username.base = base.base
               /\ IF taken THEN users'[nextId].username.n >= 1
                           ELSE users'[nextId].username.n = 0]_vars

\* C17: the limiter's read, comparison and write happen within the one step
\* that starts a search, whatever other searches are in flight: a search is
\* let through exactly when it is among the first RATE_LIMIT calls of its
\* principal's window, the stored count is then its ordinal in the window, a
\* refused search leaves the window as it was, and no later step of any search
\* touches the windows.
C17_AdmissionAtomic ==
  [][\A p \in Procs :
       LET u == req'[p].tok.userId
           started == req[p].pc = "idle" /\ req'[p].op = "search"
           admitted == started /\ req'[p].pc = "find"
           refused == started /\ req'[p].pc = "done" /\ req'[p].status = 429
       IN /\ admitted => /\ calls'[u] <= RATE_LIMIT
                         /\ rateLimits'[u].count = calls'[u]
          /\ refused => /\ calls'[u] > RATE_LIMIT
                        /\ rateLimits'[u] = rateLimits[u]
                        /\ rateLimits[u].count = RATE_LIMIT
          /\ (req[p].op = "search" /\ req'[p] # req[p])
               => rateLimits' = rateLimits]_vars

\* A search was refused while another search of the same principal, let
\* through earlier in the same window, was still waiting for its candidates or
\* for the upstream service.
C17_Witness ==
  \E p, q \in Procs :
    /\ p # q
    /\ req[p].op = "search" /\ req[p].pc \in {"find", "upstream"}
    /\ req[q].op = "search" /\ req[q].pc = "done" /\ req[q].status = 429
    /\ req[p].principal = req[q].tok.userId
    /\ lastCall = [user |-> req[p].principal, ok |-> FALSE]

\* C18: every window in the Map has a count between 1 and RATE_LIMIT; a call
\* before the window's reset time never lowers the count and never changes
\* the reset time; a call at or after the reset time is admitted and replaces
\* the window with one of count 1 that ends RATE_WINDOW_MS after the call,
\* however full the expired window was; and the passing of time changes no
\* window.
C18_WindowLifecycle ==
  [][/\ \A u \in UserIds :
          rateLimits'[u] # NoWindow
            => rateLimits'[u].count >= 1 /\ rateLimits'[u].count <= RATE_LIMIT
     /\ \A u \in UserIds :
          (Admit(u) \/ AdmitTimed(u)) =>
            IF rateLimits[u] # NoWindow /\ now < rateLimits[u].resetAt
              THEN /\ rateLimits'[u].count >= rateLimits[u].count
                   /\ rateLimits'[u].resetAt = rateLimits[u].resetAt
              ELSE /\ rateLimits'[u] = [count |-> 1, resetAt |-> now + RATE_WINDOW_MS]
                   /\ lastCall' = [user |-> u, ok |-> TRUE]
     /\ RateTick => rateLimits' = rateLimits]_vars

\* A window that was filled at the first instant has expired and been
\* replaced: the call at or after its reset time was admitted with count 1.
C18_Witness ==
  \E u \in UserIds :
    /\ admitLog[u][0] = RATE_LIMIT
    /\ now >= RATE_WINDOW_MS
    /\ admitLog[u][Instant] = 1
    /\ lastCall = [user |-> u, ok |-> TRUE]
    /\ rateLimits[u] = [count |-> 1, resetAt |-> now + RATE_WINDOW_MS]

\* C19: over any stretch of time no longer than RATE_WINDOW_MS, whenever it
\* begins and however the calls are spread, a principal has at most
\* 2 * RATE_LIMIT calls admitted: the stretch meets at most two windows.
C19_TwiceCeilingPerInterval ==
  \A u \in UserIds : \A i, j \in 0..MaxRateTicks :
    (i <= j /\ (j - i) * RateTickMs <= RATE_WINDOW_MS)
      => AdmittedBetween(u, i, j) <= 2 * RATE_LIMIT

\* A stretch of RATE_WINDOW_MS took exactly 2 * RATE_LIMIT admitted calls, a
\* full window at its first instant and another at its last, and a third
\* window has admitted a call since.
C19_Witness ==
  \E u \in UserIds : \E i, j \in 0..MaxRateTicks :
    /\ i < j /\ (j - i) * RateTickMs = RATE_WINDOW_MS
    /\ admitLog[u][i] = RATE_LIMIT /\ admitLog[u][j] = RATE_LIMIT
    /\ AdmittedBetween(u, i, j) = 2 * RATE_LIMIT
    /\ AdmittedBetween(u, 0, MaxRateTicks) > 2 * RATE_LIMIT

\* C20: when register, login, refresh or the Google sign-in answers with a
\* token pair, the refresh token of that pair is the one stored for its
\* principal at that moment; and when the save of the token fails, the answer
\* is an error and carries no pair.
C20_PersistedBeforeReturned ==
  [][\A p \in Procs :
       (/\ req[p].op \in {"register", "login", "refresh", "google"}
        /\ req[p].pc \in {"save", "saveToken"}
        /\ req'[p].pc = "done")
         => /\ req'[p].pair # NoPair
                 => LET rt == req'[p].pair.refreshToken
                    IN /\ users'[rt.userId].exists
                       /\ users'[rt.userId].refreshToken = rt
            /\ SaveTokenFails(users, req[p].doc)
                 => req'[p].pair = NoPair /\ req'[p].status \notin {200, 201}
            /\ req'[p].pair = NoPair => users' = users]_vars

\* C21: a search begins its candidate fetch only in the step in which
\* checkRateLimit admitted it, and calls the upstream service only after the
\* fetch; a search refused admission is answered 429 at once, with no fetch
\* and no upstream call; and once the upstream call of a search has settled,
\* well or badly, the search is answered and makes no further call.
C21_AdmitThenFetchThenAskOnce ==
  [][\A p \in Procs :
       /\ (req'[p].op = "search" /\ req'[p].pc = "find" /\ req'[p] # req[p])
            => /\ req[p].pc = "idle"
               /\ lastCall' = [user |-> req'[p].principal, ok |-> TRUE]
               /\ rateLimits' # rateLimits
               /\ ~req'[p].invoked
       /\ (req'[p].op = "search" /\ req'[p].pc = "upstream" /\ req'[p] # req[p])
            => req[p].op = "search" /\ req[p].pc = "find" /\ ~req[p].invoked
       /\ (req[p].op = "search" /\ req[p].pc = "upstream" /\ req'[p] # req[p])
            => req'[p].pc = "done"
       /\ (req[p].pc = "idle" /\ req'[p].op = "search" /\ req'[p].status = 429)
            => /\ req'[p].pc = "done" /\ ~req'[p].invoked /\ req'[p].posts = <<>>
               /\ lastCall' = [user |-> req'[p].tok.userId, ok |-> FALSE]
       /\ (req[p].op = "search" /\ req[p].pc = "done")
            => req'[p] \in {req[p], Idle}]_vars

\* One search was answered with an upstream failure after its single upstream
\* call, and another search of the same principal was refused admission.
C21_Witness ==
  \E p, q \in Procs :
    /\ p # q
    /\ req[p].op = "search" /\ req[p].pc = "done" /\ req[p].status = 500
    /\ req[p].invoked /\ req[p].upstream # NoOutcome /\ ~req[p].upstream.ok
    /\ req[q].op = "search" /\ req[q].pc = "done" /\ req[q].status = 429
    /\ ~req[q].invoked
    /\ req[p].tok.userId = req[q].tok.userId

\* C22: whatever the upstream service answers with, every item of the search
\* result is one of the fetched candidates and no candidate appears twice;
\* the result holds exactly the candidates whose id occurs in the array the
\* response parses to, so ids that name no candidate are ignored; the items stand in
\* the order of the last occurrence of their ids in the response; and the
\* matching by ids alone gives the same candidates in the same order.
C22_CandidatesOnceByLastOccurrence ==
  \A p \in Procs :
    (req[p].op = "search" /\ req[p].pc = "done" /\ req[p].status = 200
       /\ req[p].invoked)
      => LET posts == req[p].posts
             result == req[p].result
             text == Cleaned(ResponseText(req[p].upstream))
             items == IF text.parses /\ text.kind = "array" THEN text.items ELSE <<>>
             candidates == {posts[i] : i \in DOMAIN posts}
             named == {items[i].id[1] :
                         i \in {k \in DOMAIN items : items[k].obj /\ items[k].id # <<>>}}
             last(id) == CHOOSE i \in DOMAIN items :
                           /\ items[i].id = <<id>>
                           /\ \A j \in DOMAIN items : items[j].id = <<id>> => j <= i
             relevantIds == [i \in DOMAIN parseSearchResults(req[p].upstream.text) |->
                               parseSearchResults(req[p].upstream.text)[i].id]
         IN /\ \A i \in DOMAIN result : result[i].id \in candidates
            /\ \A i, j \in DOMAIN result : i # j => result[i].id # result[j].id
            /\ {result[i].id : i \in DOMAIN result} = candidates \cap named
            /\ \A i, j \in DOMAIN result :
                 i < j => last(result[i].id) < last(result[j].id)
            /\ [i \in DOMAIN result |-> result[i].id] = MatchedIds(posts, relevantIds)

\* The response named one candidate, then another, then the first again: the
\* result has the two candidates, the repeated one last.
C22_Witness ==
  \E p \in Procs :
    /\ req[p].op = "search" /\ req[p].pc = "done" /\ req[p].status = 200
    /\ req[p].posts = <<1, 2>>
    /\ Len(req[p].upstream.text.items) = 3
    /\ req[p].upstream.text.items[1].id = <<1>>
    /\ req[p].upstream.text.items[2].id = <<2>>
    /\ req[p].upstream.text.items[3].id = <<1>>
    /\ Len(req[p].result) = 2
    /\ req[p].result[1].id = 2 /\ req[p].result[2].id = 1

\* C23: no step changes a Google id that a principal already has: the linkage
\* of a principal is written when it has none and never after, whatever
\* Google id later sign-ins with its e-mail address carry.
C23_LinkageWrittenOnce ==
  [][\A i \in UserIds :
       (users[i].exists /\ users[i].googleId # 0)
         => users'[i].googleId = users[i].googleId]_vars

\* C24: no two principals ever have the same handle or the same contact
\* address, also when registrations and Google sign-ins for the same handle
\* or address have both passed their lookups before either inserts; the
\* insert that comes second is refused by the unique index, its request fails
\* with the duplicate error and the store is left as it was.
C24_HandlesAndAddressesUnique ==
  [][/\ \A i, j \in ExistingIds(users') :
          i # j => /\ users'[i].username # users'[j].username
                   /\ users'[i].email # users'[j].email
     /\ \A p \in Procs :
          (/\ req[p].pc = "insert" /\ req'[p] # req[p]
           /\ \E i \in ExistingIds(users) :
                \/ users[i].username = req[p].username
                \/ users[i].email = req[p].email)
            => /\ users' = users /\ nextId' = nextId
               /\ req'[p].pc = "done" /\ req'[p].pair = NoPair
               /\ req'[p].error =
                    IF req[p].op = "register"
                      THEN "Username or email already exists"
                      ELSE "E11000 duplicate key error"
               /\ req'[p].status = IF req[p].op = "register" THEN 400 ELSE 302]_vars

\* A registration and a Google sign-in for the same contact address both
\* passed their lookups on an empty store; one created the principal and the
\* other was refused by the unique index.
C24_Witness ==
  \E p, q \in Procs :
    /\ p # q
    /\ Cardinality(ExistingIds(users)) = 1
    /\ req[p].pc = "done"
    /\ req[p].error \in {"Username or email already exists", "E11000 duplicate key error"}
    /\ req[q].op \in {"register", "google"} /\ req[q].op # req[p].op
    /\ req[q].pc \in {"save", "saveToken"} /\ req[q].doc.id = 1
    /\ nextId = 2

\* C25: whatever the base handle and whatever handles the store holds, a call
\* of ensureUniqueUsername returns in the end.
C25_Terminates == <>(uniq.pc = "returned")

\* C26: a logout that presents a validly signed, unexpired refresh token
\* naming an existing principal goes on to its save whatever fingerprint is
\* stored (the presented token, a newer one, or none), and when the save
\* finds the principal still there the logout answers 200 and the stored
\* fingerprint is empty.
C26_LogoutWithoutComparison ==
  [][\A p \in Procs :
       /\ (/\ req[p].pc = "idle" /\ req'[p].op = "logout"
           /\ JwtVerify(req'[p].tok, "refresh", now) = "ok"
           /\ users[req'[p].tok.userId].exists)
            => req'[p].pc = "save" /\ req'[p].doc.id = req'[p].tok.userId
       /\ (/\ req[p].op = "logout" /\ req[p].pc = "save" /\ req'[p].pc = "done"
           /\ users[req[p].doc.id].exists)
            => /\ req'[p].status = 200
               /\ users'[req[p].doc.id].refreshToken = NoTok]_vars

\* A logout presenting a token that a later login or rotation had superseded
\* was answered 200, and so was a logout for a principal whose fingerprint
\* was already empty.
C26_Witness ==
  \E p \in Procs :
    /\ req[p].op = "logout" /\ req[p].pc = "done" /\ req[p].status = 200
    /\ users[req[p].tok.userId].exists
    /\ users[req[p].tok.userId].refreshToken = NoTok
    /\ \E t \in issued : t.userId = req[p].tok.userId /\ t.iat > req[p].tok.iat

\* C27: the refresh token of every pair returned differs from every refresh
\* token returned before, and the token a rotation returns differs from the
\* token that was presented to it.
C27_TokensDistinct ==
  [][\A p \in Procs :
       (req[p].pc # "done" /\ req'[p].pc = "done" /\ req'[p].pair # NoPair)
         => /\ req'[p].pair.refreshToken \notin issued
            /\ req'[p].pair.refreshToken # req'[p].tok]_vars

\* C28: a refresh that had loaded its principal and passed the comparison
\* before a logout presenting the same token was answered 200 does not, when
\* it completes after that logout, leave a stored fingerprint behind or
\* return a refresh token that refresh would accept.
C28_LogoutOutlastsRefresh ==
  [][\A p, q \in Procs :
       (/\ p # q
        /\ req[p].op = "refresh" /\ req[p].pc = "save" /\ req'[p].pc = "done"
        /\ ~req[p].afterRevoke
        /\ req[q].op = "logout" /\ req[q].pc = "done" /\ req[q].status = 200
        /\ req[q].tok = req[p].tok)
         => /\ users'[req[p].doc.id].refreshToken = NoTok
            /\ ~RefreshAccepts(req'[p].pair.refreshToken, now', users')]_vars

\* C29: whether the middleware accepts an access token that was delivered for
\* P does not depend on P's stored refresh token: the token is accepted, with
\* P's id, exactly when it is presented before its expiry while P exists, be
\* the stored token the one delivered with it, a newer one, or none.
C29_AccessIgnoresFingerprint ==
  [][\A p \in Procs, rt \in issued :
       (req[p].pc = "idle" /\ req'[p].op = "auth" /\ req'[p].tok = AccessOf(rt))
         => /\ (req'[p].status = 0)
                 = (users[rt.userId].exists /\ now < (rt.iat + AccessExpirySec) * 1000)
            /\ req'[p].status = 0 => req'[p].principal = rt.userId
            /\ \A fp \in issued \cup {NoTok} :
                 AuthOutcome(AccessOf(rt), now,
                             [users EXCEPT ![rt.userId].refreshToken = fp]).status
                   = req'[p].status]_vars

\* An access token was accepted after its principal had logged out: the
\* stored refresh token is empty.
C29_Witness ==
  \E p \in Procs, rt \in issued :
    /\ req[p].pc = "done" /\ req[p].op = "auth" /\ req[p].tok = AccessOf(rt)
    /\ req[p].status = 0 /\ req[p].principal = rt.userId
    /\ users[rt.userId].exists /\ users[rt.userId].refreshToken = NoTok

\* C30: a search that passes the access-token check with a query and a
\* configured API key and is admitted takes one slot of its principal's
\* window in the step that admits it, and nothing later gives the slot back
\* or takes another, whether the candidates come back empty, the fetch fails,
\* or the upstream call fails or succeeds; a search answered 401 by the
\* middleware, 400 for a missing query or 500 for a missing API key leaves
\* every window as it was.
C30_OneSlotPerAdmittedSearch ==
  [][\A p \in Procs :
       LET started == req[p].pc = "idle" /\ req'[p].op = "search"
           u == req'[p].principal
           open == rateLimits[u] # NoWindow /\ now < rateLimits[u].resetAt
       IN /\ (started /\ req'[p].pc = "find")
               => /\ rateLimits'[u].count = IF open THEN rateLimits[u].count + 1 ELSE 1
                  /\ \A v \in UserIds \ {u} : rateLimits'[v] = rateLimits[v]
          /\ (started /\ req'[p].pc = "done" /\ req'[p].status # 429)
               => /\ req'[p].error \in {"Access token required", "Token expired",
                                        "Invalid token", "User not found",
                                        "Search query is required",
                                        "AI search is not configured"}
                  /\ rateLimits' = rateLimits /\ calls' = calls
          /\ (req[p].op = "search" /\ req[p].pc \in {"find", "upstream"}
                /\ req'[p].pc = "done")
               => rateLimits' = rateLimits]_vars

\* Two searches of one principal were admitted in the same window and both
\* failed, one at the candidate fetch and one at the upstream call; the
\* window counts both.
C30_Witness ==
  \E p, q \in Procs :
    /\ p # q
    /\ req[p].op = "search" /\ req[p].pc = "done" /\ req[p].status = 500
    /\ req[p].error = "AI search failed" /\ ~req[p].invoked
    /\ req[q].op = "search" /\ req[q].pc = "done" /\ req[q].status = 500
    /\ req[q].invoked /\ ~req[q].upstream.ok
    /\ req[p].tok.userId = req[q].tok.userId
    /\ rateLimits[req[p].tok.userId].count = 2
    /\ calls[req[p].tok.userId] = 2

====
